---- MODULE Spec2Model ----
(***************************************************************************)
(* A model of IslandWindow (src/cascadia/WindowsTerminal/IslandWindow.cpp):*)
(* the native window that hosts the XAML island.  The state is the         *)
(* object's fields plus the part of the native window the code reads and   *)
(* writes (rectangle, style bits, show state).  Every operation records    *)
(* the outbound calls it made, in order, in `last`.                        *)
(***************************************************************************)
EXTENDS Integers, Sequences, FiniteSets, TLC

\* ---------------------------------------------------------------- bounds
\* Largest left coordinate the environment places the window at.
MaxPos == 2
\* Largest width (= height) of a window rectangle and of a resize request.
MaxExtent == 2
\* Width and height of each of the two side-by-side monitors.
MonExtent == 2

\* ------------------------------------------------------------ rectangles
Rect(l, t, r, b) == [left |-> l, top |-> t, right |-> r, bottom |-> b]

ZeroRect == Rect(0, 0, 0, 0)

RECT_WIDTH(pRect) == pRect.right - pRect.left

RECT_HEIGHT(pRect) == pRect.bottom - pRect.top

\* Rectangles the environment (the user, the window manager) gives the window.
WinRects ==
    { Rect(x, 0, x + cx, cy) : x \in 0..MaxPos, cx \in 1..MaxExtent, cy \in 1..MaxExtent }

\* The two cached rectangles are members without an initializer in this file:
\* their value before the first fullscreen entry is whatever the build left.
UninitRects == { ZeroRect, Rect(MaxPos + 1, 1, MaxPos + 2, 2) }

Monitors ==
    { Rect(0, 0, MonExtent, MonExtent),
      Rect(MonExtent, 0, 2 * MonExtent, MonExtent) }

Max(a, b) == IF a > b THEN a ELSE b

Min(a, b) == IF a < b THEN a ELSE b

OverlapArea(r, m) ==
    Max(0, Min(r.right, m.right) - Max(r.left, m.left))
        * Max(0, Min(r.bottom, m.bottom) - Max(r.top, m.top))

Distance(r, m) ==
    Max(0, Max(m.left - r.right, r.left - m.right))
        + Max(0, Max(m.top - r.bottom, r.top - m.bottom))

\* MonitorFromWindow(hwnd, MONITOR_DEFAULTTONEAREST): the monitor with the
\* largest intersection with the window, else the nearest one.  A tie is
\* the window manager's choice.
MonitorFromWindow(r) ==
    IF \E m \in Monitors : OverlapArea(r, m) > 0
    THEN { m \in Monitors : \A o \in Monitors : OverlapArea(r, m) >= OverlapArea(r, o) }
    ELSE { m \in Monitors : \A o \in Monitors : Distance(r, m) <= Distance(r, o) }

\* ----------------------------------------------------------- style bits
WS_POPUP == "WS_POPUP"

WS_OVERLAPPEDWINDOW ==
    { "WS_BORDER", "WS_DLGFRAME", "WS_SYSMENU", "WS_THICKFRAME",
      "WS_MINIMIZEBOX", "WS_MAXIMIZEBOX" }

WS_EX_WINDOWEDGE == "WS_EX_WINDOWEDGE"

\* ------------------------------------------------------- outbound calls
Call(fn, hwnd, rc, arg) == [fn |-> fn, hwnd |-> hwnd, rc |-> rc, arg |-> arg]

NoResult == [delegated |-> FALSE, value |-> 0]

Returned(v) == [delegated |-> FALSE, value |-> v]

VARIABLES
    window,                     \* _window: "null" or "hwnd"
    pfnCreateCallback,          \* "null", or the launch mode the callback sets
    interopWindowHandle,        \* _interopWindowHandle: "null" or "interop"
    rootGrid,                   \* _rootGrid: [exists, Width, Height]
    interopSize,                \* size of the interop child window
    fullscreen,                 \* _fullscreen
    rcNonFullscreenWindowSize,  \* _rcNonFullscreenWindowSize
    rcFullscreenWindowSize,     \* _rcFullscreenWindowSize
    windowRect,                 \* GetWindowRect() of the native window
    style,                      \* GWL_STYLE bits
    exStyle,                    \* GWL_EXSTYLE bits
    quitPosted,                 \* a WM_QUIT has been posted
    last                        \* the operation that ran last, and its calls

vars ==
    << window, pfnCreateCallback, interopWindowHandle, rootGrid, interopSize,
       fullscreen, rcNonFullscreenWindowSize, rcFullscreenWindowSize,
       windowRect, style, exStyle, quitPosted, last >>

\* What an operation leaves behind for the properties: its name and
\* arguments, its result, the calls it made in order, whether the operation
\* before it had the same name, and (for the fullscreen operations) the
\* fullscreen flag and window rectangle it started from, what the style
\* guard answered in it, and what it answered in the operation before.
Op(name, arg, size, result, calls) ==
    [ op |-> name, arg |-> arg, size |-> size, result |-> result, calls |-> calls,
      lparam |-> [x |-> 0, y |-> 0, cx |-> 0, cy |-> 0],
      repeat |-> FALSE, preFullscreen |-> FALSE, preRect |-> ZeroRect,
      styleGuard |-> FALSE, prevStyleGuard |-> FALSE ]

FullscreenOp(name, arg, calls, styleGuard) ==
    [ op |-> name, arg |-> arg, size |-> << 0, 0 >>,
      result |-> [delegated |-> FALSE, value |-> 0], calls |-> calls,
      lparam |-> [x |-> 0, y |-> 0, cx |-> 0, cy |-> 0],
      repeat |-> (last.op = name), preFullscreen |-> fullscreen, preRect |-> windowRect,
      styleGuard |-> styleGuard, prevStyleGuard |-> last.styleGuard ]

NoSize == << 0, 0 >>

\* ------------------------------------------------------------- messages
NcButtonMessages ==
    { "WM_NCLBUTTONDOWN", "WM_NCLBUTTONUP", "WM_NCMBUTTONDOWN", "WM_NCMBUTTONUP",
      "WM_NCRBUTTONDOWN", "WM_NCRBUTTONUP", "WM_NCXBUTTONDOWN", "WM_NCXBUTTONUP" }

\* Messages the window manager delivers once the window exists; WM_PAINT
\* stands for every message the switch has no case for.
Messages ==
    { "WM_SETFOCUS", "WM_MENUCHAR", "WM_CLOSE", "WM_PAINT" } \cup NcButtonMessages

MNC_CLOSE == 1

MAKELRESULT(l, h) == l + h * 65536

\* The CREATESTRUCTW fields WM_CREATE carries.
CreateStructs ==
    { [x |-> x, y |-> y, cx |-> c, cy |-> c] :
        x \in 0..MaxPos, y \in 0..1, c \in 1..MaxExtent }

NoCreateStruct == [x |-> 0, y |-> 0, cx |-> 0, cy |-> 0]

LaunchModes == { "DefaultMode", "MaximizedMode" }

\* Close(): posts the quit message.
CloseCalls ==
    << Call("Close", "-", ZeroRect, ""), Call("PostQuitMessage", "-", ZeroRect, "0") >>

\* _HandleCreateWindow taking cx and cy for the right and bottom edges.
HandleCreateWindowSizeAsCorner(pcs) ==
    LET rc == Rect(pcs.x, pcs.y, pcs.cx, pcs.cy)
        launchMode ==
            IF pfnCreateCallback # "null" THEN pfnCreateCallback ELSE "DefaultMode"
        nCmdShow == IF launchMode = "MaximizedMode" THEN "SW_MAXIMIZE" ELSE "SW_SHOW"
    IN  (IF pfnCreateCallback # "null"
         THEN << Call("pfnCreateCallback", "hwnd", rc, "") >>
         ELSE << >>)
        \o << Call("ShowWindow", "hwnd", ZeroRect, nCmdShow),
              Call("UpdateWindow", "hwnd", ZeroRect, "") >>

\* _HandleCreateWindow: the calls it makes, in order.
HandleCreateWindow(pcs) ==
    LET rc == Rect(pcs.x, pcs.y, pcs.x + pcs.cx, pcs.y + pcs.cy)
        launchMode ==
            IF pfnCreateCallback # "null" THEN pfnCreateCallback ELSE "DefaultMode"
        nCmdShow == IF launchMode = "MaximizedMode" THEN "SW_MAXIMIZE" ELSE "SW_SHOW"
    IN  (IF pfnCreateCallback # "null"
         THEN << Call("pfnCreateCallback", "hwnd", rc, "") >>
         ELSE << >>)
        \o << Call("ShowWindow", "hwnd", ZeroRect, nCmdShow),
              Call("UpdateWindow", "hwnd", ZeroRect, "") >>

\* The WM_SETFOCUS case without its check of the interop handle.
SetFocusReturnsUnchecked == TRUE

\* The WM_SETFOCUS case: TRUE when it returns 0 itself; otherwise control
\* runs on into the case labels that follow it.
SetFocusReturns == interopWindowHandle # "null"

\* The non-client button case labels, entered by one of the eight messages
\* or by control arriving from the case above them.
EntersNcButtonCase(message) ==
    \/ message \in NcButtonMessages
    \/ message = "WM_SETFOCUS" /\ ~SetFocusReturns

\* The WM_CLOSE case ending in break instead of return 0.
CloseCaseBreaks(reaction, baseValue) ==
    [ result |-> [delegated |-> TRUE, value |-> baseValue],
      calls |-> << Call("windowCloseButtonClickedHandler", "-", ZeroRect, "") >>
                \o (IF reaction = "Close" THEN CloseCalls ELSE << >>)
                \o << Call("base_type::MessageHandler", "hwnd", ZeroRect, "WM_CLOSE") >> ]

\* The WM_CLOSE case.  `reaction` is what the subscribers of
\* WindowCloseButtonClicked do while they are being notified.
CloseCase(reaction, baseValue) ==
    [ result |-> Returned(0),
      calls |-> << Call("windowCloseButtonClickedHandler", "-", ZeroRect, "") >>
                \o (IF reaction = "Close" THEN CloseCalls ELSE << >>) ]

\* MessageHandler: the result it returns and the calls it makes, in order.
MessageHandler(message, lparam, reaction, baseValue) ==
    LET base == Call("base_type::MessageHandler", "hwnd", ZeroRect, message)
        viaBase == [delegated |-> TRUE, value |-> baseValue]
    IN  IF message = "WM_CREATE"
        THEN [result |-> Returned(0), calls |-> HandleCreateWindow(lparam)]
        ELSE IF message = "WM_SETFOCUS" /\ SetFocusReturns
        THEN [result |-> Returned(0),
              calls |-> << Call("SetFocus", "interop", ZeroRect, "") >>]
        ELSE IF EntersNcButtonCase(message)
        THEN [result |-> viaBase,
              calls |-> << Call("DragRegionClickedHandlers", "-", ZeroRect, ""), base >>]
        ELSE IF message = "WM_MENUCHAR"
        THEN [result |-> Returned(MAKELRESULT(0, MNC_CLOSE)), calls |-> << >>]
        ELSE IF message = "WM_CLOSE"
        THEN CloseCase(reaction, baseValue)
        ELSE [result |-> viaBase, calls |-> << base >>]

Made(calls, fn) == \E i \in 1..Len(calls) : calls[i].fn = fn

\* ------------------------------------------------------------------ Init
\* _fullscreen before the first SetIsFullscreen: the window is created
\* windowed (WS_OVERLAPPEDWINDOW).
InitialFullscreen == FALSE

Init ==
    /\ window = "null"
    /\ pfnCreateCallback = "null"
    /\ interopWindowHandle = "null"
    /\ rootGrid = [exists |-> FALSE, Width |-> 0, Height |-> 0]
    /\ interopSize = NoSize
    /\ fullscreen = InitialFullscreen
    /\ rcNonFullscreenWindowSize \in UninitRects
    /\ rcFullscreenWindowSize \in UninitRects
    /\ windowRect = ZeroRect
    /\ style = {}
    /\ exStyle = {}
    /\ quitPosted = FALSE
    /\ last = Op("construct", "", NoSize, NoResult, << >>)

\* --------------------------------------------------------------- actions
SetCreateCallback(pfn) ==
    /\ pfnCreateCallback' = pfn
    /\ last' = Op("SetCreateCallback", pfn, NoSize, NoResult, << >>)
    /\ UNCHANGED << window, interopWindowHandle, rootGrid, interopSize, fullscreen,
                    rcNonFullscreenWindowSize, rcFullscreenWindowSize, windowRect,
                    style, exStyle, quitPosted >>

\* MakeWindow: CreateWindow delivers WM_CREATE to MessageHandler before it
\* returns; ShowWindow makes the window visible (and maximized on request).
MakeWindow(pcs) ==
    /\ window = "null"
    /\ LET r == MessageHandler("WM_CREATE", pcs, "none", 0)
           rc == Rect(pcs.x, pcs.y, pcs.x + pcs.cx, pcs.y + pcs.cy)
           shown == { "WS_VISIBLE" } \cup
                    (IF \E i \in 1..Len(r.calls) :
                            r.calls[i].fn = "ShowWindow" /\ r.calls[i].arg = "SW_MAXIMIZE"
                     THEN { "WS_MAXIMIZE" } ELSE {})
       IN  /\ window' = "hwnd"
           /\ windowRect' = rc
           /\ style' = WS_OVERLAPPEDWINDOW \cup shown
           /\ exStyle' = { WS_EX_WINDOWEDGE }
           /\ last' = [ Op("MessageHandler", "WM_CREATE", NoSize, r.result, r.calls)
                         EXCEPT !.lparam = pcs ]
    /\ UNCHANGED << pfnCreateCallback, interopWindowHandle, rootGrid, interopSize,
                    fullscreen, rcNonFullscreenWindowSize, rcFullscreenWindowSize,
                    quitPosted >>

\* A message other than WM_CREATE arrives at MessageHandler.
Message(message, reaction, baseValue) ==
    /\ window # "null"
    /\ LET r == MessageHandler(message, NoCreateStruct, reaction, baseValue)
       IN  /\ quitPosted' = (quitPosted \/ Made(r.calls, "PostQuitMessage"))
           /\ last' = Op("MessageHandler", message, NoSize, r.result, r.calls)
    /\ UNCHANGED << window, pfnCreateCallback, interopWindowHandle, rootGrid,
                    interopSize, fullscreen, rcNonFullscreenWindowSize,
                    rcFullscreenWindowSize, windowRect, style, exStyle >>

Close ==
    /\ window # "null"
    /\ quitPosted' = TRUE
    /\ last' = Op("Close", "", NoSize, NoResult, CloseCalls)
    /\ UNCHANGED << window, pfnCreateCallback, interopWindowHandle, rootGrid,
                    interopSize, fullscreen, rcNonFullscreenWindowSize,
                    rcFullscreenWindowSize, windowRect, style, exStyle >>

\* ----------------------------------------------------- size and content
Scales == { 1, 2 }

\* GetLogicalSize(): the client size divided by the DPI scale.
GetLogicalSize(scale) ==
    [ Width |-> RECT_WIDTH(windowRect) \div scale,
      Height |-> RECT_HEIGHT(windowRect) \div scale ]

\* GetPhysicalSize(): the client size in pixels.
GetPhysicalSize == [cx |-> RECT_WIDTH(windowRect), cy |-> RECT_HEIGHT(windowRect)]

\* OnSize: the SetWindowPos on the interop window, then the root grid's size.
OnSize(width, height, scale) ==
    [ calls |-> << Call("SetWindowPos", interopWindowHandle,
                        Rect(0, 0, width, height), "SWP_SHOWWINDOW") >>,
      interopSize |-> IF interopWindowHandle # "null"
                      THEN << width, height >> ELSE interopSize,
      rootGrid |-> IF rootGrid.exists
                   THEN [ exists |-> TRUE,
                          Width |-> GetLogicalSize(scale).Width,
                          Height |-> GetLogicalSize(scale).Height ]
                   ELSE rootGrid ]

\* OnResize without the check of the interop handle.
OnResizeUnchecked(width, height, scale) == OnSize(width, height, scale)

\* OnResize: OnSize behind the check of the interop handle.
OnResize(width, height, scale) ==
    IF interopWindowHandle # "null"
    THEN OnSize(width, height, scale)
    ELSE [calls |-> << >>, interopSize |-> interopSize, rootGrid |-> rootGrid]

Initialize ==
    /\ window # "null"
    /\ interopWindowHandle' = "interop"
    /\ rootGrid' = [exists |-> TRUE, Width |-> 0, Height |-> 0]
    /\ last' = Op("Initialize", "", NoSize, NoResult,
                  << Call("AttachToWindow", "hwnd", ZeroRect, ""),
                     Call("get_WindowHandle", "interop", ZeroRect, ""),
                     Call("Content", "-", ZeroRect, "rootGrid") >>)
    /\ UNCHANGED << window, pfnCreateCallback, interopSize, fullscreen,
                    rcNonFullscreenWindowSize, rcFullscreenWindowSize, windowRect,
                    style, exStyle, quitPosted >>

Resize(width, height, scale) ==
    /\ window # "null"
    /\ LET r == OnResize(width, height, scale)
       IN  /\ interopSize' = r.interopSize
           /\ rootGrid' = r.rootGrid
           /\ last' = Op("OnResize", "", << width, height >>, NoResult, r.calls)
    /\ UNCHANGED << window, pfnCreateCallback, interopWindowHandle, fullscreen,
                    rcNonFullscreenWindowSize, rcFullscreenWindowSize, windowRect,
                    style, exStyle, quitPosted >>

OnAppInitialized(scale) ==
    /\ window # "null"
    /\ LET size == GetPhysicalSize
           r == OnSize(size.cx, size.cy, scale)
       IN  /\ interopSize' = r.interopSize
           /\ rootGrid' = r.rootGrid
           /\ last' = Op("OnAppInitialized", "", << size.cx, size.cy >>, NoResult,
                         r.calls)
    /\ UNCHANGED << window, pfnCreateCallback, interopWindowHandle, fullscreen,
                    rcNonFullscreenWindowSize, rcFullscreenWindowSize, windowRect,
                    style, exStyle, quitPosted >>

\* ------------------------------------------------------------ fullscreen
\* _ShouldUpdateStylesOnFullscreen(): its body is outside this file.  It
\* gates whether the style bits are touched at all, so on each call it can
\* answer either way.
ShouldUpdateStylesOnFullscreen == BOOLEAN

\* The style bits flipped on every call instead of set from the new flag.
FullscreenStyleFlipped(dwWindowStyle, fs) ==
    IF WS_POPUP \in dwWindowStyle
    THEN (dwWindowStyle \ { WS_POPUP }) \cup WS_OVERLAPPEDWINDOW
    ELSE (dwWindowStyle \ WS_OVERLAPPEDWINDOW) \cup { WS_POPUP }

\* The GWL_STYLE bits SetIsFullscreen writes.
FullscreenStyle(dwWindowStyle, fs) ==
    IF fs
    THEN (dwWindowStyle \ WS_OVERLAPPEDWINDOW) \cup { WS_POPUP }
    ELSE (dwWindowStyle \ { WS_POPUP }) \cup WS_OVERLAPPEDWINDOW

\* The GWL_EXSTYLE bits SetIsFullscreen writes.
FullscreenExStyle(dwExWindowStyle, fs) ==
    IF fs
    THEN dwExWindowStyle \ { WS_EX_WINDOWEDGE }
    ELSE dwExWindowStyle \cup { WS_EX_WINDOWEDGE }

\* _BackupWindowSizes backing the window rectangle up on every entry, also
\* when the window is already fullscreen.
BackupWindowSizesUngated(fCurrentIsInFullscreen, fs, monitorInfo) ==
    [ non |-> IF fs THEN windowRect ELSE rcNonFullscreenWindowSize,
      full |-> IF fs /\ monitorInfo.ok
               THEN monitorInfo.rcMonitor ELSE rcFullscreenWindowSize,
      calls |-> IF fs
                THEN << Call("GetMonitorInfo", "-", monitorInfo.rcMonitor,
                             IF monitorInfo.ok THEN "ok" ELSE "failed") >>
                ELSE << >> ]

\* _BackupWindowSizes reading the monitor only on the first entry, inside
\* the check of the old flag.
BackupWindowSizesMonitorOnce(fCurrentIsInFullscreen, fs, monitorInfo) ==
    [ non |-> IF fs /\ ~fCurrentIsInFullscreen
              THEN windowRect ELSE rcNonFullscreenWindowSize,
      full |-> IF fs /\ ~fCurrentIsInFullscreen /\ monitorInfo.ok
               THEN monitorInfo.rcMonitor ELSE rcFullscreenWindowSize,
      calls |-> IF fs
                THEN << Call("GetMonitorInfo", "-", monitorInfo.rcMonitor,
                             IF monitorInfo.ok THEN "ok" ELSE "failed") >>
                ELSE << >> ]

\* _BackupWindowSizes: the two cached rectangles after it ran.  fs is the
\* new _fullscreen; monitorInfo is what GetMonitorInfo answered for the
\* monitor MonitorFromWindow chose.
BackupWindowSizes(fCurrentIsInFullscreen, fs, monitorInfo) ==
    [ non |-> IF fs /\ ~fCurrentIsInFullscreen
              THEN windowRect ELSE rcNonFullscreenWindowSize,
      full |-> IF fs /\ monitorInfo.ok
               THEN monitorInfo.rcMonitor ELSE rcFullscreenWindowSize,
      calls |-> IF fs
                THEN << Call("GetMonitorInfo", "-", monitorInfo.rcMonitor,
                             IF monitorInfo.ok THEN "ok" ELSE "failed") >>
                ELSE << >> ]

\* _ApplyWindowSize handing right and bottom to SetWindowPos where it
\* takes a width and a height.
ApplyWindowSizeRightAsWidth(fs, rcNon, rcFull) ==
    LET rcNewSize == IF fs THEN rcFull ELSE rcNon
    IN  Call("SetWindowPos", "hwnd",
             Rect(rcNewSize.left, rcNewSize.top,
                  rcNewSize.left + rcNewSize.right,
                  rcNewSize.top + rcNewSize.bottom),
             "SWP_FRAMECHANGED")

\* _ApplyWindowSize: the one SetWindowPos it issues (x, y, cx, cy given
\* here as the rectangle they denote).
ApplyWindowSize(fs, rcNon, rcFull) ==
    LET rcNewSize == IF fs THEN rcFull ELSE rcNon
    IN  Call("SetWindowPos", "hwnd",
             Rect(rcNewSize.left, rcNewSize.top,
                  rcNewSize.left + RECT_WIDTH(rcNewSize),
                  rcNewSize.top + RECT_HEIGHT(rcNewSize)),
             "SWP_FRAMECHANGED")

BoolName(b) == IF b THEN "true" ELSE "false"

\* SetIsFullscreen(fFullscreenEnabled), entered directly or from
\* ToggleFullscreen (name tells which).
SetIsFullscreenAs(name, fFullscreenEnabled, monitorInfo, shouldUpdate) ==
    /\ window # "null"
    /\ LET fOldIsInFullscreen == fullscreen
           st == IF shouldUpdate
                 THEN FullscreenStyle(style, fFullscreenEnabled) ELSE style
           ex == IF shouldUpdate
                 THEN FullscreenExStyle(exStyle, fFullscreenEnabled) ELSE exStyle
           b == BackupWindowSizes(fOldIsInFullscreen, fFullscreenEnabled, monitorInfo)
           place == ApplyWindowSize(fFullscreenEnabled, b.non, b.full)
       IN  /\ fullscreen' = fFullscreenEnabled
           /\ style' = st
           /\ exStyle' = ex
           /\ rcNonFullscreenWindowSize' = b.non
           /\ rcFullscreenWindowSize' = b.full
           /\ windowRect' = place.rc
           /\ last' = FullscreenOp(name, BoolName(fFullscreenEnabled),
                                   b.calls \o << place >>, shouldUpdate)
    /\ UNCHANGED << window, pfnCreateCallback, interopWindowHandle, rootGrid,
                    interopSize, quitPosted >>

\* What GetMonitorInfo can answer for the window as it is now.
MonitorInfos ==
    { [ok |-> ok, rcMonitor |-> m] : ok \in BOOLEAN, m \in MonitorFromWindow(windowRect) }

SetIsFullscreen(fFullscreenEnabled, monitorInfo, shouldUpdate) ==
    SetIsFullscreenAs("SetIsFullscreen", fFullscreenEnabled, monitorInfo, shouldUpdate)

ToggleFullscreen(monitorInfo, shouldUpdate) ==
    SetIsFullscreenAs("ToggleFullscreen", ~fullscreen, monitorInfo, shouldUpdate)

\* The user or the window manager moves or resizes the window.
ExternalMove(r) ==
    /\ window # "null"
    /\ r # windowRect
    /\ windowRect' = r
    /\ last' = Op("ExternalMove", "", NoSize, NoResult, << >>)
    /\ UNCHANGED << window, pfnCreateCallback, interopWindowHandle, rootGrid,
                    interopSize, fullscreen, rcNonFullscreenWindowSize,
                    rcFullscreenWindowSize, style, exStyle, quitPosted >>

\* The whole object: every operation, in any order.  Its state space is the
\* product of the three groups below.
Next ==
    \/ \E pfn \in LaunchModes : SetCreateCallback(pfn)
    \/ \E pcs \in CreateStructs : MakeWindow(pcs)
    \/ \E m \in Messages, reaction \in { "none", "Close" }, v \in { 0, 1 } :
            Message(m, reaction, v)
    \/ Close
    \/ Initialize
    \/ \E w \in 0..MaxExtent, h \in 0..MaxExtent, sc \in Scales : Resize(w, h, sc)
    \/ \E sc \in Scales : OnAppInitialized(sc)
    \/ \E f \in BOOLEAN, mi \in MonitorInfos, g \in ShouldUpdateStylesOnFullscreen :
            SetIsFullscreen(f, mi, g)
    \/ \E mi \in MonitorInfos, g \in ShouldUpdateStylesOnFullscreen :
            ToggleFullscreen(mi, g)
    \/ \E r \in WinRects : ExternalMove(r)

Spec == Init /\ [][Next]_vars

\* The operations fall into three groups that share no field they write
\* (message routing and creation; island size; fullscreen geometry).  Each
\* group is explored with the operations that read or write its fields;
\* ToggleFullscreen is in the size group because it changes the window
\* rectangle the logical size is computed from.
NextMessages ==
    \/ \E pfn \in LaunchModes : SetCreateCallback(pfn)
    \/ \E pcs \in CreateStructs : MakeWindow(pcs)
    \/ \E m \in Messages, reaction \in { "none", "Close" }, v \in { 0, 1 } :
            Message(m, reaction, v)
    \/ Close
    \/ Initialize

SpecMessages == Init /\ [][NextMessages]_vars

NextSize ==
    \/ \E pcs \in CreateStructs : MakeWindow(pcs)
    \/ Initialize
    \/ \E w \in 0..MaxExtent, h \in 0..MaxExtent, sc \in Scales : Resize(w, h, sc)
    \/ \E sc \in Scales : OnAppInitialized(sc)
    \/ \E mi \in MonitorInfos, g \in ShouldUpdateStylesOnFullscreen :
            ToggleFullscreen(mi, g)

SpecSize == Init /\ [][NextSize]_vars

NextFullscreen ==
    \/ \E pcs \in CreateStructs : MakeWindow(pcs)
    \/ \E f \in BOOLEAN, mi \in MonitorInfos, g \in ShouldUpdateStylesOnFullscreen :
            SetIsFullscreen(f, mi, g)
    \/ \E mi \in MonitorInfos, g \in ShouldUpdateStylesOnFullscreen :
            ToggleFullscreen(mi, g)
    \/ \E r \in WinRects : ExternalMove(r)

SpecFullscreen == Init /\ [][NextFullscreen]_vars

\* ======================================================== properties
FullscreenOps == { "SetIsFullscreen", "ToggleFullscreen" }

\* The placement call _ApplyWindowSize issues for rectangle rc.
Placement(rc) == Call("SetWindowPos", "hwnd", rc, "SWP_FRAMECHANGED")

\* ----------------------------------------------------------------- C1
\* C1: a ToggleFullscreen() from the windowed state followed at once by a
\* second ToggleFullscreen() ends windowed, with the window at exactly the
\* rectangle it had before the first toggle.
C1_ToggleTwiceRestoresRect ==
    [][ ( /\ last.op = "ToggleFullscreen"
          /\ ~last.preFullscreen
          /\ last'.op = "ToggleFullscreen" )
        => ( /\ ~fullscreen'
             /\ windowRect' = last.preRect
             /\ last'.calls = << Placement(last.preRect) >> ) ]_vars

\* Two toggles in a row have run, from a windowed rectangle that differs
\* from the fullscreen rectangle the window was at in between.
C1_Witness ==
    /\ last.op = "ToggleFullscreen"
    /\ last.repeat
    /\ last.preFullscreen
    /\ ~fullscreen
    /\ windowRect \in WinRects \ Monitors
    /\ last.preRect \in Monitors
    /\ windowRect.left > 0

\* ----------------------------------------------------------------- C2
\* C2: the cached non-fullscreen rectangle changes only in a call that
\* enters fullscreen from the windowed state; a call made while already
\* fullscreen, a call that sets windowed and an external move leave it alone.
C2_NonFullscreenRectWrittenOnEntryOnly ==
    [][ rcNonFullscreenWindowSize' # rcNonFullscreenWindowSize
        => ( /\ last'.op \in FullscreenOps
             /\ last'.arg = "true"
             /\ ~fullscreen
             /\ fullscreen'
             /\ rcNonFullscreenWindowSize' = windowRect ) ]_vars

\* SetIsFullscreen(true) has run on a fullscreen window that had been moved
\* away from both cached rectangles, and the cached rectangle kept its value.
C2_Witness ==
    /\ last.op = "SetIsFullscreen"
    /\ last.arg = "true"
    /\ last.preFullscreen
    /\ last.preRect # rcNonFullscreenWindowSize
    /\ last.preRect \in WinRects \ Monitors
    /\ rcNonFullscreenWindowSize \in WinRects

\* ----------------------------------------------------------------- C3
\* C3 as claimed: in SetIsFullscreen(true); SetIsFullscreen(true) the
\* second call leaves the style and extended-style bits as the first call
\* set them (overlapped-window bits clear, popup set, window-edge clear)
\* and still issues the placement call with the fullscreen target rectangle.
C3_SecondEntryKeepsStylesReappliesGeometry ==
    [][ ( /\ last.op = "SetIsFullscreen" /\ last.arg = "true"
          /\ last'.op = "SetIsFullscreen" /\ last'.arg = "true" )
        => ( /\ style' = style
             /\ exStyle' = exStyle
             /\ style' \cap WS_OVERLAPPEDWINDOW = {}
             /\ WS_POPUP \in style'
             /\ WS_EX_WINDOWEDGE \notin exStyle'
             /\ last'.calls[Len(last'.calls)] = Placement(rcFullscreenWindowSize')
             /\ Cardinality({ i \in 1..Len(last'.calls) :
                                last'.calls[i].fn = "SetWindowPos" }) = 1
             /\ windowRect' = rcFullscreenWindowSize' ) ]_vars

\* C3 as amended: in SetIsFullscreen(true); SetIsFullscreen(true) the
\* second call always issues the one placement call with the fullscreen
\* target rectangle.  It changes no style bit when the style guard answered
\* true in the first call (the bits are then overlapped-window clear, popup
\* set, window-edge clear before and after it) and touches no style bit
\* when the guard answers false in it; when the guard answers true in it,
\* the bits after it are overlapped-window clear, popup set, window-edge
\* clear.
C3_SecondEntryStylesUnderGuardReappliesGeometry ==
    [][ ( /\ last.op = "SetIsFullscreen" /\ last.arg = "true"
          /\ last'.op = "SetIsFullscreen" /\ last'.arg = "true" )
        => ( /\ last'.calls[Len(last'.calls)] = Placement(rcFullscreenWindowSize')
             /\ Cardinality({ i \in 1..Len(last'.calls) :
                                last'.calls[i].fn = "SetWindowPos" }) = 1
             /\ windowRect' = rcFullscreenWindowSize'
             /\ last.styleGuard
                  => /\ style' = style
                     /\ exStyle' = exStyle
                     /\ style \cap WS_OVERLAPPEDWINDOW = {}
                     /\ WS_POPUP \in style
                     /\ WS_EX_WINDOWEDGE \notin exStyle
             /\ ~last'.styleGuard
                  => /\ style' = style
                     /\ exStyle' = exStyle
             /\ last'.styleGuard
                  => /\ style' = (style \ WS_OVERLAPPEDWINDOW) \cup { WS_POPUP }
                     /\ exStyle' = exStyle \ { WS_EX_WINDOWEDGE } ) ]_vars

\* SetIsFullscreen(true) has run twice in a row, the style guard answering
\* true in both calls.
C3_Witness ==
    /\ last.op = "SetIsFullscreen"
    /\ last.arg = "true"
    /\ last.repeat
    /\ last.preFullscreen
    /\ last.prevStyleGuard
    /\ last.styleGuard
    /\ fullscreen
    /\ WS_POPUP \in style
    /\ style \cap WS_OVERLAPPEDWINDOW = {}
    /\ windowRect \in Monitors

\* ----------------------------------------------------------------- C4
\* C4: SetIsFullscreen(false) on a window that is already windowed leaves
\* the window's rectangle and its style bits as they were.
C4_ReenterWindowedChangesNothing ==
    [][ ( /\ last'.op = "SetIsFullscreen"
          /\ last'.arg = "false"
          /\ ~fullscreen )
        => ( /\ windowRect' = windowRect
             /\ style' = style
             /\ exStyle' = exStyle ) ]_vars

\* ---------------------------------------------------------------- C10
\* C10 as claimed: every call that enters fullscreen caches the rectangle
\* of the monitor nearest the window at that moment and places the window
\* at it.
C10_EntryAlwaysCachesNearestMonitor ==
    [][ ( last'.op \in FullscreenOps /\ last'.arg = "true" )
        => ( /\ rcFullscreenWindowSize' \in MonitorFromWindow(windowRect)
             /\ windowRect' = rcFullscreenWindowSize' ) ]_vars

\* C10 as amended: a call that enters fullscreen places the window at the
\* cached fullscreen rectangle; that rectangle is the rectangle of the
\* monitor nearest the window at that moment when GetMonitorInfo succeeds,
\* also after a move to another monitor, and keeps its earlier value when
\* GetMonitorInfo fails.
C10_EntryCachesNearestMonitorWhenQueried ==
    [][ ( last'.op \in FullscreenOps /\ last'.arg = "true" )
        => LET info == last'.calls[1]
           IN  /\ info.fn = "GetMonitorInfo"
               /\ info.rc \in MonitorFromWindow(windowRect)
               /\ info.arg = "ok" => rcFullscreenWindowSize' = info.rc
               /\ info.arg = "failed" => rcFullscreenWindowSize' = rcFullscreenWindowSize
               /\ windowRect' = rcFullscreenWindowSize'
               /\ last'.calls[Len(last'.calls)] = Placement(rcFullscreenWindowSize') ]_vars

\* Fullscreen has been entered again, with GetMonitorInfo succeeding, on a
\* window that was fullscreen already and had been moved onto the other
\* monitor.
C10_Witness ==
    /\ last.op \in FullscreenOps
    /\ last.arg = "true"
    /\ last.preFullscreen
    /\ last.calls[1].arg = "ok"
    /\ last.preRect \in WinRects \ Monitors
    /\ rcFullscreenWindowSize = Rect(MonExtent, 0, 2 * MonExtent, MonExtent)
    /\ rcNonFullscreenWindowSize \in WinRects
    /\ OverlapArea(rcNonFullscreenWindowSize, rcFullscreenWindowSize) = 0
    /\ windowRect = rcFullscreenWindowSize

\* ----------------------------------------------------------------- C5
\* C5: MessageHandler raises DragRegionClicked exactly when the message is
\* one of the eight non-client button messages, and then hands the message
\* to the base handler; no other message raises it.
C5_DragRaisedExactlyOnNcButton ==
    last.op = "MessageHandler"
    => /\ Made(last.calls, "DragRegionClickedHandlers") <=> last.arg \in NcButtonMessages
       /\ last.arg \in NcButtonMessages
            => /\ last.result.delegated
               /\ last.calls[Len(last.calls)].fn = "base_type::MessageHandler"

\* ----------------------------------------------------------------- C6
\* C6: on WM_SETFOCUS with an interop window, focus is sent to it and the
\* handler returns 0 without calling the base handler; with no interop
\* window nothing is sent and the base handler resolves the message.
C6_SetFocusForwardsOrDelegates ==
    ( last.op = "MessageHandler" /\ last.arg = "WM_SETFOCUS" )
    => IF interopWindowHandle # "null"
       THEN /\ last.calls = << Call("SetFocus", "interop", ZeroRect, "") >>
            /\ last.result = Returned(0)
       ELSE /\ ~Made(last.calls, "SetFocus")
            /\ last.result.delegated
            /\ last.calls[Len(last.calls)] =
                 Call("base_type::MessageHandler", "hwnd", ZeroRect, "WM_SETFOCUS")
            /\ Cardinality({ i \in 1..Len(last.calls) :
                               last.calls[i].fn = "base_type::MessageHandler" }) = 1

\* WM_SETFOCUS has been handled before Initialize() created the interop
\* window.
C6_Witness ==
    /\ last.op = "MessageHandler"
    /\ last.arg = "WM_SETFOCUS"
    /\ window # "null"
    /\ interopWindowHandle = "null"
    /\ last.result.delegated

\* ----------------------------------------------------------------- C7
\* C7: handling WM_CLOSE notifies the WindowCloseButtonClicked subscribers,
\* returns 0 and neither calls the base handler nor posts the quit message
\* itself; the quit message is posted only by a call of Close().
C7_CloseOnlyNotifies ==
    [][ /\ quitPosted' # quitPosted => Made(last'.calls, "Close")
        /\ ( last'.op = "MessageHandler" /\ last'.arg = "WM_CLOSE" )
           => /\ last'.calls[1].fn = "windowCloseButtonClickedHandler"
              /\ last'.result = Returned(0)
              /\ ~Made(last'.calls, "base_type::MessageHandler")
              /\ \A i \in 1..Len(last'.calls) :
                    last'.calls[i].fn = "PostQuitMessage"
                    => i > 1 /\ last'.calls[i - 1].fn = "Close"
              /\ window' = window ]_vars

\* WM_CLOSE has been handled, the subscribers did not call Close(), and no
\* quit message is posted.
C7_Witness ==
    /\ last.op = "MessageHandler"
    /\ last.arg = "WM_CLOSE"
    /\ last.calls = << Call("windowCloseButtonClickedHandler", "-", ZeroRect, "") >>
    /\ ~quitPosted
    /\ window = "hwnd"

\* ----------------------------------------------------------------- C8
\* C8: handling WM_CREATE calls the stored create callback exactly once,
\* with the window and the rectangle (x, y, x + cx, y + cy), before the
\* window is shown; the window is shown maximized when the callback asked
\* for MaximizedMode and normally when it asked for DefaultMode or when no
\* callback is stored; the handler returns 0.
C8_CreateCallsCallbackThenShows ==
    ( last.op = "MessageHandler" /\ last.arg = "WM_CREATE" )
    => LET pcs == last.lparam
           rc == Rect(pcs.x, pcs.y, pcs.x + pcs.cx, pcs.y + pcs.cy)
           show(cmd) == << Call("ShowWindow", "hwnd", ZeroRect, cmd),
                           Call("UpdateWindow", "hwnd", ZeroRect, "") >>
           callback == << Call("pfnCreateCallback", "hwnd", rc, "") >>
       IN  /\ last.result = Returned(0)
           /\ pfnCreateCallback = "null" => last.calls = show("SW_SHOW")
           /\ pfnCreateCallback = "DefaultMode"
                => last.calls = callback \o show("SW_SHOW")
           /\ pfnCreateCallback = "MaximizedMode"
                => last.calls = callback \o show("SW_MAXIMIZE")

\* WM_CREATE has been handled with a callback stored that asks for
\* MaximizedMode, for a window proposed away from the origin.
C8_Witness ==
    /\ last.op = "MessageHandler"
    /\ last.arg = "WM_CREATE"
    /\ pfnCreateCallback = "MaximizedMode"
    /\ last.lparam.x > 0
    /\ last.lparam.y > 0
    /\ Len(last.calls) = 3
    /\ "WS_MAXIMIZE" \in style

\* ----------------------------------------------------------------- C9
ObjectFields ==
    << window, pfnCreateCallback, interopWindowHandle, rootGrid, interopSize,
       fullscreen, rcNonFullscreenWindowSize, rcFullscreenWindowSize,
       windowRect, style, exStyle, quitPosted >>

\* C9: OnResize(width, height) before Initialize() makes no call and
\* changes no field, for every width and height; once the interop window
\* exists it does what OnSize(width, height) does: one resize of the
\* interop window to width x height and the root grid set to the logical
\* size.
C9_ResizeBeforeInitializeIsNoOp ==
    [][ last'.op = "OnResize"
        => IF interopWindowHandle = "null"
           THEN /\ last'.calls = << >>
                /\ UNCHANGED ObjectFields
           ELSE /\ last'.calls =
                     << Call("SetWindowPos", "interop",
                             Rect(0, 0, last'.size[1], last'.size[2]), "SWP_SHOWWINDOW") >>
                /\ interopSize' = last'.size
                /\ \E sc \in Scales :
                     rootGrid' = [ exists |-> TRUE,
                                   Width |-> RECT_WIDTH(windowRect) \div sc,
                                   Height |-> RECT_HEIGHT(windowRect) \div sc ]
                /\ UNCHANGED << window, pfnCreateCallback, interopWindowHandle, fullscreen,
                                rcNonFullscreenWindowSize, rcFullscreenWindowSize,
                                windowRect, style, exStyle, quitPosted >> ]_vars

\* OnResize has run with a non-zero size on a fullscreen window whose
\* interop window does not exist yet.
C9_Witness ==
    /\ last.op = "OnResize"
    /\ last.size[1] > 0
    /\ last.size[2] > 0
    /\ last.calls = << >>
    /\ window # "null"
    /\ interopWindowHandle = "null"
    /\ ~rootGrid.exists
    /\ fullscreen
====
